---- MODULE Spec2Model ----
(***************************************************************************)
(* Model of src/app.py, the Service Complaints Analyzer: one render of the *)
(* Streamlit script from the CSV load to the last section, and the pure    *)
(* helpers it applies to every row (column-name cleaning, categorize,      *)
(* get_sentiment, the keyword match).                                      *)
(*                                                                         *)
(* Text is a sequence of one-character strings, so that strip, replace,    *)
(* lower and substring / regex search are computed character by character. *)
(***************************************************************************)
EXTENDS Integers, Sequences, FiniteSets, TLC

VARIABLES
    pc,         \* the section of the script the render is about to run
    upload,     \* st.file_uploader: "none" | "bad" (unreadable) | "ok"
    fallback,   \* data/complaints.csv: "absent" | "ok" | "bad" (unreadable)
    csv,        \* the table pd.read_csv gives for the file that is read
    df,         \* the script's global df: NoDf (None) or a table
    crit,       \* the widget values read so far in this render
    pdf,        \* TRUE once the name pdf is bound (line 204)
    trend_daily,\* the frame built at line 234
    out,        \* what the render has shown: messages, charts, files
    cin,        \* categorize: the description value it is applied to
    cout        \* categorize: the label it returned

vars == <<pc, upload, fallback, csv, df, crit, pdf, trend_daily, out, cin, cout>>

----------------------------------------------------------------------------
(* Bounds of the model *)

MaxRows == 2        \* rows of a loaded table
MaxFrags == 2       \* fragments concatenated into a description (categorize)
MaxDay == 2         \* calendar days the date picker offers: 1..MaxDay
SlotsPerDay == 2    \* distinct times of day a timestamp can carry

----------------------------------------------------------------------------
(* Characters and Python's str methods *)

UpperCase == <<"A","B","C","D","E","F","G","H","I","J","K","L","M",
               "N","O","P","Q","R","S","T","U","V","W","X","Y","Z">>
LowerCase == <<"a","b","c","d","e","f","g","h","i","j","k","l","m",
               "n","o","p","q","r","s","t","u","v","w","x","y","z">>
Digits == {"0","1","2","3","4","5","6","7","8","9"}
WhiteSpace == {" ", "\t", "\n"}

Range(s) == {s[i] : i \in DOMAIN s}

LowerChar(c) ==
    IF \E i \in DOMAIN UpperCase : UpperCase[i] = c
    THEN LowerCase[CHOOSE i \in DOMAIN UpperCase : UpperCase[i] = c]
    ELSE c

UpperChar(c) ==
    IF \E i \in DOMAIN LowerCase : LowerCase[i] = c
    THEN UpperCase[CHOOSE i \in DOMAIN LowerCase : LowerCase[i] = c]
    ELSE c

\* str.lower()
Lower(s) == [i \in DOMAIN s |-> LowerChar(s[i])]

\* str.upper()
Upper(s) == [i \in DOMAIN s |-> UpperChar(s[i])]

\* str.strip(): drop leading and trailing whitespace
Strip(s) ==
    LET keep == {i \in DOMAIN s : s[i] \notin WhiteSpace}
    IN  IF keep = {} THEN <<>>
        ELSE LET lo == CHOOSE i \in keep : \A j \in keep : i <= j
                 hi == CHOOSE i \in keep : \A j \in keep : j <= i
             IN  SubSeq(s, lo, hi)

\* str.replace(" ", "_")
ReplaceSpace(s) == [i \in DOMAIN s |-> IF s[i] = " " THEN "_" ELSE s[i]]

\* Python's `sub in s`
Contains(s, sub) ==
    \E i \in 1..(Len(s) - Len(sub) + 1) :
        \A j \in 1..Len(sub) : s[i + j - 1] = sub[j]

\* re.search(pat, s) for a pattern of literal characters and "." (any
\* character but a newline), which is what Series.str.contains does with its
\* default regex=True.
RegexSearch(pat, s) ==
    \E i \in 1..(Len(s) - Len(pat) + 1) :
        \A j \in 1..Len(pat) :
            \/ pat[j] = "." /\ s[i + j - 1] # "\n"
            \/ pat[j] # "." /\ s[i + j - 1] = pat[j]

RECURSIVE Concat(_)
Concat(ss) == IF ss = <<>> THEN <<>> ELSE Head(ss) \o Concat(Tail(ss))

----------------------------------------------------------------------------
(* Cell values of the description column *)

NaN == [k |-> "nan", s |-> <<>>]
Text(s) == [k |-> "text", s |-> s]
\* a non-text, non-missing cell (a float or a bool); s is what str() gives
Obj(s) == [k |-> "obj", s |-> s]

\* pd.isna
IsNa(v) == v.k = "nan"

\* str(text) on a cell that is not missing
PyStr(v) == v.s

\* Series.astype(str) on an object/float column: a missing cell becomes "nan"
AsTypeStr(v) == IF IsNa(v) THEN <<"n","a","n">> ELSE v.s

----------------------------------------------------------------------------
(* Clean column names, line 42 *)

\* col.strip().replace(" ", "_").lower()
CleanName(col) == Lower(ReplaceSpace(Strip(col)))

----------------------------------------------------------------------------
(* categorize, lines 131-145 *)

kw_bill == <<"b","i","l","l">>
kw_refund == <<"r","e","f","u","n","d">>
kw_network == <<"n","e","t","w","o","r","k">>
kw_signal == <<"s","i","g","n","a","l">>
kw_slow == <<"s","l","o","w">>
kw_speed == <<"s","p","e","e","d">>
kw_service == <<"s","e","r","v","i","c","e">>
kw_support == <<"s","u","p","p","o","r","t">>
kw_rude == <<"r","u","d","e">>

\* categorize without the lower-casing of line 135
categorize_nolower(text) ==
    IF IsNa(text) THEN "Unknown"
    ELSE LET t == PyStr(text)
         IN  IF Contains(t, kw_bill) \/ Contains(t, kw_refund) THEN "Billing"
             ELSE IF Contains(t, kw_network) \/ Contains(t, kw_signal) THEN "Network"
             ELSE IF Contains(t, kw_slow) \/ Contains(t, kw_speed) THEN "Performance"
             ELSE IF Contains(t, kw_service) \/ Contains(t, kw_support)
                     \/ Contains(t, kw_rude) THEN "Customer Service"
             ELSE "Other"

categorize(text) ==
    IF IsNa(text) THEN "Unknown"
    ELSE LET t == Lower(PyStr(text))
         IN  IF Contains(t, kw_bill) \/ Contains(t, kw_refund) THEN "Billing"
             ELSE IF Contains(t, kw_network) \/ Contains(t, kw_signal) THEN "Network"
             ELSE IF Contains(t, kw_slow) \/ Contains(t, kw_speed) THEN "Performance"
             ELSE IF Contains(t, kw_service) \/ Contains(t, kw_support)
                     \/ Contains(t, kw_rude) THEN "Customer Service"
             ELSE "Other"

----------------------------------------------------------------------------
(* get_sentiment, lines 89-100 *)

\* TextBlob's polarity is in hundredths: 0.1 is 10
PolarityThreshold == 10

\* polarity is what TextBlob(str(text)).sentiment.polarity returns for the cell
get_sentiment(text, polarity) ==
    IF IsNa(text) THEN "Neutral"
    ELSE IF polarity > PolarityThreshold THEN "Positive"
    ELSE IF polarity < -PolarityThreshold THEN "Negative"
    ELSE "Neutral"

sentiment_options == <<"Positive", "Neutral", "Negative">>

----------------------------------------------------------------------------
(* Tables: the value of df *)

NoDf == [none |-> TRUE]

\* column names the script looks up
n_date == <<"d","a","t","e">>
n_complainttype == <<"c","o","m","p","l","a","i","n","t","t","y","p","e">>
n_description == <<"d","e","s","c","r","i","p","t","i","o","n">>
n_sentiment == <<"s","e","n","t","i","m","e","n","t">>
n_category == <<"c","a","t","e","g","o","r","y">>
n_latitude == <<"l","a","t","i","t","u","d","e">>
n_longitude == <<"l","o","n","g","i","t","u","d","e">>

\* A column is its name and the row field that holds its cells.
Column(name, kind) == [name |-> name, kind |-> kind]

\* `name in df.columns`
HasCol(t, name) == \E i \in DOMAIN t.cols : t.cols[i].name = name

\* the number of columns called name: df[name] is a Series only when it is 1
ColCount(t, name) == Cardinality({i \in DOMAIN t.cols : t.cols[i].name = name})

\* df[name] of one row: the cell of the first column called name
Cell(t, r, name) ==
    r[t.cols[CHOOSE i \in DOMAIN t.cols :
                 /\ t.cols[i].name = name
                 /\ \A j \in DOMAIN t.cols : t.cols[j].name = name => i <= j].kind]

\* df.empty
IsEmpty(t) == t.rows = <<>>

\* rows[mask]: the rows whose entry of the boolean mask is True, in their
\* order, each with its index
RECURSIVE Masked(_, _)
Masked(rows, mask) ==
    IF rows = <<>> THEN <<>>
    ELSE (IF Head(mask) THEN <<Head(rows)>> ELSE <<>>)
         \o Masked(Tail(rows), Tail(mask))

\* df[mask]
Filter(t, mask) == [t EXCEPT !.rows = Masked(t.rows, mask)]

(* Date cells.  A raw cell is text that parses ("str"), text that does not
   ("junk") or an empty field ("nan"); pd.to_datetime(errors='coerce') gives a
   Timestamp ("ts") or NaT.  A Timestamp is day * SlotsPerDay + slot. *)
Ts(day, slot) == day * SlotsPerDay + slot
RawDate(day, slot) == [k |-> "str", v |-> Ts(day, slot)]
JunkDate == [k |-> "junk", v |-> 0]
NoCell == [k |-> "absent", v |-> 0]

\* pd.to_datetime(cell, errors='coerce')
to_datetime(c) == IF c.k = "str" THEN [k |-> "ts", v |-> c.v] ELSE [k |-> "NaT", v |-> 0]

\* Series.notna() on a datetime cell
NotNaT(c) == c.k = "ts"

\* Series.dt.date: the calendar day of a Timestamp
DtDate(c) == c.v \div SlotsPerDay

NoType == "NaN"

----------------------------------------------------------------------------
(* The inputs of a render *)

Layout_code ==
    << Column(n_date, "date"), Column(n_complainttype, "ctype"),
       Column(n_description, "desc") >>

\* "Date ", "Complaint Type", " Description"
Layout_spec ==
    << Column(<<"D","a","t","e"," ">>, "date"),
       Column(<<"C","o","m","p","l","a","i","n","t"," ","T","y","p","e">>, "ctype"),
       Column(<<" ","D","e","s","c","r","i","p","t","i","o","n">>, "desc") >>

Layout_nodate ==
    << Column(n_complainttype, "ctype"), Column(n_description, "desc") >>

Layout_nodesc ==
    << Column(n_date, "date"), Column(<<"I","D">>, "extra") >>

\* "Date" and "date": two distinct raw names
Layout_twodates ==
    << Column(<<"D","a","t","e">>, "date"), Column(n_date, "extra"),
       Column(n_description, "desc") >>

LayoutPool == {Layout_code, Layout_spec, Layout_nodate, Layout_nodesc, Layout_twodates}

Row(date, ctype, desc, pol) ==
    [idx |-> 0, date |-> date, ctype |-> ctype, desc |-> desc, pol |-> pol,
     extra |-> NoCell, sentiment |-> "", category |-> ""]

bill_text == <<"B","i","l","l">>
slow_text == <<"s","l","o","w">>
float_text == <<"7",".","0">>
signal_text == <<"N","o"," ","S","i","g","n","a","l",".">>

RowPool ==
    { Row(RawDate(1, 0), "Billing", Text(bill_text), -50),
      Row(RawDate(1, 1), "Network", NaN, 0),
      Row(RawDate(2, 0), "Billing", Text(slow_text), 50),
      Row(JunkDate, NoType, Obj(float_text), 10),
      Row(RawDate(2, 1), "Network", Text(signal_text), -20) }

KeywordPool ==
    { <<>>, <<" ","B","i","l","l">>, <<"n","a">>, <<"b",".","l">> }

LayoutKinds(L) == {L[i].kind : i \in DOMAIN L}

\* the cells of the columns the file does not have are not in the table
ReadRow(L, r, i) ==
    [r EXCEPT !.idx = i - 1,
              !.date = IF "date" \in LayoutKinds(L) THEN @ ELSE NoCell,
              !.ctype = IF "ctype" \in LayoutKinds(L) THEN @ ELSE NoType,
              !.desc = IF "desc" \in LayoutKinds(L) THEN @ ELSE NaN,
              !.pol = IF "desc" \in LayoutKinds(L) THEN @ ELSE 0]

SeqsUpTo(S, n) == UNION {[1..k -> S] : k \in 0..n}

\* pd.read_csv: the columns of the header and the rows under a RangeIndex
read_csv(L, rs) == [cols |-> L, rows |-> [i \in DOMAIN rs |-> ReadRow(L, rs[i], i)]]

Tables == {read_csv(L, rs) : L \in LayoutPool, rs \in SeqsUpTo(RowPool, MaxRows)}

NoCrit ==
    [dateOn |-> FALSE, start |-> 0, end |-> 0,
     typeOn |-> FALSE, types |-> {},
     kwOn |-> FALSE, keyword |-> <<>>,
     sentOn |-> FALSE, sentiments |-> {}]

----------------------------------------------------------------------------
(* The render: app.py from top to bottom *)

Init ==
    /\ pc = "load"
    /\ upload \in {"none", "bad", "ok"}
    /\ fallback \in IF upload = "none" THEN {"absent", "ok", "bad"} ELSE {"absent"}
    /\ csv \in IF upload = "ok" \/ (upload = "none" /\ fallback = "ok")
               THEN Tables ELSE {read_csv(Layout_code, <<>>)}
    /\ df = NoDf
    /\ crit = NoCrit
    /\ pdf = FALSE
    /\ trend_daily = <<>>
    /\ out = {}
    /\ cin = NaN
    /\ cout = ""

Goto(next, shown) ==
    /\ pc' = next
    /\ out' = out \cup shown

\* an exception no handler catches ends the render
Raise(exc) == Goto("crashed", {exc})

\* lines 19-37: the uploaded file, else data/complaints.csv, else nothing
Load ==
    /\ pc = "load"
    /\ IF upload = "ok" THEN df' = csv /\ Goto("guard", {})
       ELSE IF upload = "bad" THEN df' = NoDf /\ Goto("guard", {"error: reading the uploaded file"})
       ELSE IF fallback = "ok" THEN df' = csv /\ Goto("guard", {"info: using fallback"})
       ELSE IF fallback = "bad" THEN df' = df /\ Raise("exception: read_csv(fallback_path)")
       ELSE df' = NoDf /\ Goto("guard", {"warning: no file uploaded and fallback not found",
                                          "info: please upload a CSV file"})
    /\ UNCHANGED <<upload, fallback, csv, crit, pdf, trend_daily, cin, cout>>

\* line 40: if df is not None and not df.empty
Guard ==
    /\ pc = "guard"
    /\ IF df # NoDf /\ ~IsEmpty(df) THEN Goto("clean", {}) ELSE Goto("gate", {})
    /\ UNCHANGED <<upload, fallback, csv, df, crit, pdf, trend_daily, cin, cout>>

\* line 42: df.columns = [col.strip().replace(" ", "_").lower() for col in df.columns]
CleanColumns ==
    /\ pc = "clean"
    /\ df' = [df EXCEPT !.cols = [i \in DOMAIN df.cols |->
                                    Column(CleanName(df.cols[i].name), df.cols[i].kind)]]
    /\ Goto("parse", {})
    /\ UNCHANGED <<upload, fallback, csv, crit, pdf, trend_daily, cin, cout>>

\* lines 45-46.  With two columns called date, df['date'] is a DataFrame and
\* pd.to_datetime raises ValueError (it wants year, month, day columns).
ParseDates ==
    /\ pc = "parse"
    /\ IF ~HasCol(df, n_date) THEN df' = df /\ Goto("datefilter", {})
       ELSE IF ColCount(df, n_date) > 1
            THEN df' = df /\ Raise("exception: to_datetime of two date columns")
       ELSE /\ df' = [df EXCEPT !.rows = [i \in DOMAIN df.rows |->
                        [df.rows[i] EXCEPT !.date = to_datetime(@)]]]
            /\ Goto("datefilter", {})
    /\ UNCHANGED <<upload, fallback, csv, crit, pdf, trend_daily, cin, cout>>

\* df['date'].notna().any()
AnyDate(t) == \E i \in DOMAIN t.rows : NotNaT(Cell(t, t.rows[i], n_date))

\* (df['date'].dt.date >= start_date) & (df['date'].dt.date <= end_date);
\* a comparison with NaT is False
InDateRange(c, start, end) == NotNaT(c) /\ DtDate(c) >= start /\ DtDate(c) <= end

\* lines 52-61: st.sidebar.date_input hands back the range the user picked
DateFilter ==
    /\ pc = "datefilter"
    /\ IF HasCol(df, n_date) /\ AnyDate(df)
       THEN \E start \in 1..MaxDay, end \in 1..MaxDay :
              /\ start <= end
              /\ LET mask == [i \in DOMAIN df.rows |->
                                  InDateRange(Cell(df, df.rows[i], n_date), start, end)]
                 IN  df' = Filter(df, mask)
              /\ crit' = [crit EXCEPT !.dateOn = TRUE, !.start = start, !.end = end]
              /\ Goto("typefilter", {"filter: date"})
       ELSE /\ df' = df
            /\ crit' = crit
            /\ Goto("typefilter", {"warning: date column not found or no valid dates"})
    /\ UNCHANGED <<upload, fallback, csv, pdf, trend_daily, cin, cout>>

\* df['complainttype'].dropna().unique()
complaint_options(t) ==
    {Cell(t, t.rows[i], n_complainttype) : i \in DOMAIN t.rows} \ {NoType}

\* lines 65-78
TypeFilter ==
    /\ pc = "typefilter"
    /\ IF HasCol(df, n_complainttype)
       THEN IF complaint_options(df) # {}
            THEN \E selected_types \in SUBSET complaint_options(df) :
                   /\ LET mask == [i \in DOMAIN df.rows |->
                                  Cell(df, df.rows[i], n_complainttype) \in selected_types]
                      IN  df' = Filter(df, mask)
                   /\ crit' = [crit EXCEPT !.typeOn = TRUE, !.types = selected_types]
                   /\ Goto("keyword", {"filter: complaint type"})
            ELSE df' = df /\ crit' = crit
                 /\ Goto("keyword", {"info: no valid complaint types"})
       ELSE df' = df /\ crit' = crit
            /\ Goto("keyword", {"warning: complainttype column not found"})
    /\ UNCHANGED <<upload, fallback, csv, pdf, trend_daily, cin, cout>>

\* line 84: df['description'].astype(str).str.lower().str.contains(keyword, na=False)
KeywordMatch(cell, keyword) == RegexSearch(keyword, Lower(AsTypeStr(cell)))

\* lines 82-84
KeywordFilter ==
    /\ pc = "keyword"
    /\ \E typed \in KeywordPool :
         LET keyword == Lower(Strip(typed))
         IN  IF keyword # <<>> /\ HasCol(df, n_description)
             THEN /\ LET mask == [i \in DOMAIN df.rows |->
                                  KeywordMatch(Cell(df, df.rows[i], n_description), keyword)]
                     IN  df' = Filter(df, mask)
                  /\ crit' = [crit EXCEPT !.kwOn = TRUE, !.keyword = keyword]
                  /\ Goto("sentiment", {"filter: keyword"})
             ELSE /\ df' = df
                  /\ crit' = [crit EXCEPT !.keyword = keyword]
                  /\ Goto("sentiment", {})
    /\ UNCHANGED <<upload, fallback, csv, pdf, trend_daily, cin, cout>>

\* df[name] = values: a new column, or new cells for the one that is there
SetColumn(t, name, kind) ==
    IF HasCol(t, name) THEN t.cols ELSE Append(t.cols, Column(name, kind))

\* lines 88-109
Sentiment ==
    /\ pc = "sentiment"
    /\ IF HasCol(df, n_description)
       THEN \E selected_sentiments \in SUBSET Range(sentiment_options) :
              LET labelled ==
                    [cols |-> SetColumn(df, n_sentiment, "sentiment"),
                     rows |-> [i \in DOMAIN df.rows |->
                        [df.rows[i] EXCEPT !.sentiment =
                            get_sentiment(Cell(df, df.rows[i], n_description),
                                          df.rows[i].pol)]]]
                  mask == [i \in DOMAIN labelled.rows |->
                            Cell(labelled, labelled.rows[i], n_sentiment)
                                \in selected_sentiments]
              IN  /\ df' = Filter(labelled, mask)
                  /\ crit' = [crit EXCEPT !.sentOn = TRUE, !.sentiments = selected_sentiments]
                  /\ Goto("display", {"filter: sentiment"})
       ELSE /\ df' = df
            /\ crit' = crit
            /\ Goto("display", {"warning: cannot perform sentiment analysis"})
    /\ UNCHANGED <<upload, fallback, csv, pdf, trend_daily, cin, cout>>

\* lines 113-126
Display ==
    /\ pc = "display"
    /\ Goto("categorize",
            {"raw data", "summary"}
            \cup (IF HasCol(df, n_complainttype) THEN {"top complaint types"} ELSE {})
            \cup (IF HasCol(df, n_date) /\ AnyDate(df) THEN {"date range"}
                  ELSE {"info: date range not available"}))
    /\ UNCHANGED <<upload, fallback, csv, df, crit, pdf, trend_daily, cin, cout>>

\* lines 130-155
Categorize ==
    /\ pc = "categorize"
    /\ IF HasCol(df, n_description)
       THEN /\ df' = [cols |-> SetColumn(df, n_category, "category"),
                      rows |-> [i \in DOMAIN df.rows |->
                         [df.rows[i] EXCEPT !.category =
                             categorize(Cell(df, df.rows[i], n_description))]]]
            /\ Goto("charts", {"categorization", "top categories"})
       ELSE /\ df' = df
            /\ Goto("charts", {"warning: cannot categorize complaints"})
    /\ UNCHANGED <<upload, fallback, csv, crit, pdf, trend_daily, cin, cout>>

\* lines 159-171
Charts ==
    /\ pc = "charts"
    /\ Goto("wordcloud",
            (IF HasCol(df, n_sentiment) THEN {"sentiment distribution"}
             ELSE {"info: sentiment distribution not available"})
            \cup (IF HasCol(df, n_latitude) /\ HasCol(df, n_longitude) THEN {"map"}
                  ELSE {"info: no geolocation data"}))
    /\ UNCHANGED <<upload, fallback, csv, df, crit, pdf, trend_daily, cin, cout>>

IsLetter(c) == \E i \in DOMAIN LowerCase : LowerCase[i] = c \/ UpperCase[i] = c

\* WordCloud.generate raises ValueError when the text holds no word; numbers
\* are not words for it (include_numbers=False)
HasWord(t) ==
    \E i \in DOMAIN t.rows :
        LET c == Cell(t, t.rows[i], n_description)
        IN  ~IsNa(c) /\ \E j \in DOMAIN PyStr(c) : IsLetter(PyStr(c)[j])

\* lines 173-184
WordCloudSection ==
    /\ pc = "wordcloud"
    /\ IF HasCol(df, n_description)
       THEN IF HasWord(df) THEN Goto("gate", {"word cloud"})
            ELSE Raise("exception: WordCloud.generate needs at least 1 word")
       ELSE Goto("gate", {"info: word cloud failed"})
    /\ UNCHANGED <<upload, fallback, csv, df, crit, pdf, trend_daily, cin, cout>>

\* line 187, at the top level of the script: if 'date' in df.columns.
\* df is None after a failed load: None has no attribute columns.
DateGate ==
    /\ pc = "gate"
    /\ IF df = NoDf THEN Raise("exception: AttributeError: NoneType has no columns")
       ELSE IF HasCol(df, n_date) THEN Goto("forecast", {})
       ELSE Goto("novalid", {})
    /\ UNCHANGED <<upload, fallback, csv, df, crit, pdf, trend_daily, cin, cout>>

\* df['date'].value_counts(): one row per distinct value, missing ones dropped
DateValues(t) ==
    {Cell(t, t.rows[i], n_date).v :
        i \in {j \in DOMAIN t.rows : NotNaT(Cell(t, t.rows[j], n_date))}}

\* lines 188-201: no try around the model.  Prophet.fit raises ValueError on
\* a frame with fewer than 2 rows; otherwise the fit and the predict of the
\* library either go through or raise.
Forecast ==
    /\ pc = "forecast"
    /\ IF Cardinality(DateValues(df)) < 2
       THEN Raise("exception: Prophet.fit: less than 2 non-NaN rows")
       ELSE \E fitted \in BOOLEAN :
              IF fitted THEN Goto("button", {"forecast"})
              ELSE Raise("exception: Prophet fit or predict failed")
    /\ UNCHANGED <<upload, fallback, csv, df, crit, pdf, trend_daily, cin, cout>>

\* lines 203-210: pdf is bound only inside the if
Button ==
    /\ pc = "button"
    /\ \E pressed \in BOOLEAN :
         IF pressed THEN pdf' = TRUE /\ Goto("pdftypes", {"pressed: Generate PDF Report"})
         ELSE pdf' = pdf /\ Goto("pdftypes", {})
    /\ UNCHANGED <<upload, fallback, csv, df, crit, trend_daily, cin, cout>>

\* lines 212-215: the loop body reads pdf once per complaint type
PdfTypes ==
    /\ pc = "pdftypes"
    /\ IF HasCol(df, n_complainttype) /\ complaint_options(df) # {}
       THEN IF pdf THEN Goto("pdfout", {"pdf: top complaint types"})
            ELSE Raise("exception: NameError: pdf")
       ELSE Goto("pdfout", {})
    /\ UNCHANGED <<upload, fallback, csv, df, crit, pdf, trend_daily, cin, cout>>

\* lines 217-220
PdfOutput ==
    /\ pc = "pdfout"
    /\ IF pdf THEN Goto("theme", {"pdf: file written", "download button"})
       ELSE Raise("exception: NameError: pdf")
    /\ UNCHANGED <<upload, fallback, csv, df, crit, pdf, trend_daily, cin, cout>>

\* lines 224-228
Theme ==
    /\ pc = "theme"
    /\ \E theme_choice \in {"Dark", "Light"} :
         Goto("trend", {IF theme_choice = "Light" THEN "info: light theme"
                        ELSE "info: dark theme"})
    /\ UNCHANGED <<upload, fallback, csv, df, crit, pdf, trend_daily, cin, cout>>

RECURSIVE Ascending(_)
Ascending(S) ==
    IF S = {} THEN <<>>
    ELSE LET m == CHOOSE x \in S : \A y \in S : x <= y
         IN  <<m>> \o Ascending(S \ {m})

\* groupby('date'): the key of a row is the value of its date cell
GroupKey(c) == c.v

\* line 234: trend_df.groupby('date').size().reset_index(name='count')
GroupSize(rows) ==
    LET keys == {GroupKey(rows[i].date) : i \in DOMAIN rows}
        order == Ascending(keys)
    IN  [n \in DOMAIN order |->
            [date |-> order[n],
             count |-> Cardinality({i \in DOMAIN rows : GroupKey(rows[i].date) = order[n]})]]

\* lines 231-243
Trend ==
    /\ pc = "trend"
    /\ IF HasCol(df, n_date) /\ AnyDate(df)
       THEN LET notna == [i \in DOMAIN df.rows |-> NotNaT(Cell(df, df.rows[i], n_date))]
                trend_df == Filter(df, notna)
            IN  /\ trend_daily' = GroupSize(trend_df.rows)
                /\ Goto("topics", {"daily trend", "monthly trend"})
       ELSE /\ trend_daily' = trend_daily
            /\ Goto("topics", {"warning: cannot display trend"})
    /\ UNCHANGED <<upload, fallback, csv, df, crit, pdf, cin, cout>>

IsWordChar(c) == IsLetter(c) \/ c \in Digits \/ c = "_"

\* line 251: fillna("").astype(str).str.lower().str.replace(r'[^\w\s]', '')
CleanText(c) ==
    IF IsNa(c) THEN <<>>
    ELSE LET keep(ch) == IsWordChar(ch) \/ ch \in WhiteSpace
         IN  SelectSeq(Lower(PyStr(c)), keep)

\* line 254: the texts that are not blank after cleaning
CleanedTexts(t) ==
    {i \in DOMAIN t.rows : Strip(CleanText(Cell(t, t.rows[i], n_description))) # <<>>}

\* lines 247-281: the vectorizer and the LDA fit are inside try / except ValueError
Topics ==
    /\ pc = "topics"
    /\ IF HasCol(df, n_description) /\ ~IsEmpty(df)
       THEN IF CleanedTexts(df) # {}
            THEN \E fitted \in BOOLEAN :
                   IF fitted THEN Goto("done", {"topics"})
                   ELSE Goto("done", {"warning: could not perform LDA topic modeling"})
            ELSE Goto("done", {"info: no valid text data for LDA"})
       ELSE Goto("done", {"warning: cannot perform topic modeling"})
    /\ UNCHANGED <<upload, fallback, csv, df, crit, pdf, trend_daily, cin, cout>>

\* lines 283-284: the else of line 187
NoValidData ==
    /\ pc = "novalid"
    /\ Goto("done", {"warning: no valid data available"})
    /\ UNCHANGED <<upload, fallback, csv, df, crit, pdf, trend_daily, cin, cout>>

Next ==
    \/ Load \/ Guard \/ CleanColumns \/ ParseDates
    \/ DateFilter \/ TypeFilter \/ KeywordFilter \/ Sentiment
    \/ Display \/ Categorize \/ Charts \/ WordCloudSection
    \/ DateGate \/ Forecast \/ Button \/ PdfTypes \/ PdfOutput
    \/ Theme \/ Trend \/ Topics \/ NoValidData

Spec == Init /\ [][Next]_vars

----------------------------------------------------------------------------
(* categorize as a function of one description cell *)

\* pieces of text that put the keywords, in either letter case, whole or
\* split over two pieces, into a description
FragPool ==
    { <<"b","i","l","l">>, <<"R","E","F","U","N","D">>,
      <<"N","e","t","w","o","r","k">>, <<"s","i","g","n","a","l">>,
      <<"s","l","o","w">>, <<"S","p","e","e","d">>,
      <<"s","e","r","v","i","c","e">>, <<"S","U","P","P","O","R","T">>,
      <<"r","u","d","e">>, <<"B","i">>, <<"l","l">>, <<" ">>,
      <<"l","a","t","e">>, <<"n","e","t">>, <<"w","o","r","k">> }

\* what str() gives for a float, a bool and an int cell
ObjPool == { <<"7",".","0">>, <<"T","r","u","e">>, <<"1","2">> }

Descriptions ==
    {NaN} \cup {Text(Concat(fs)) : fs \in SeqsUpTo(FragPool, MaxFrags)}
          \cup {Obj(s) : s \in ObjPool}

InitCategorize ==
    /\ pc = "apply"
    /\ upload = "none"
    /\ fallback = "absent"
    /\ csv = read_csv(Layout_code, <<>>)
    /\ df = NoDf
    /\ crit = NoCrit
    /\ pdf = FALSE
    /\ trend_daily = <<>>
    /\ out = {}
    /\ cin \in Descriptions
    /\ cout = ""

\* line 147: df['description'].apply(categorize), one cell
ApplyCategorize ==
    /\ pc = "apply"
    /\ cout' = categorize(cin)
    /\ pc' = "applied"
    /\ UNCHANGED <<upload, fallback, csv, df, crit, pdf, trend_daily, out, cin>>

NextCategorize == ApplyCategorize

SpecCategorize == InitCategorize /\ [][NextCategorize]_vars

----------------------------------------------------------------------------
(* What the claims speak of *)

\* a file was read into df
Loaded == upload = "ok" \/ (upload = "none" /\ fallback = "ok")

\* the load failed: df is None
LoadFailed == upload = "bad" \/ (upload = "none" /\ fallback = "absent")

\* the filter stage (lines 52-107) has run on df
Filtered == pc = "display" \/ "raw data" \in out

\* the sections of the second half of the script, lines 188-281
Downstream == {"forecast", "button", "pdftypes", "pdfout", "theme", "trend", "topics"}

TopicOutputs ==
    {"topics", "warning: could not perform LDA topic modeling",
     "info: no valid text data for LDA", "warning: cannot perform topic modeling"}

ForecastFailures ==
    {"exception: Prophet.fit: less than 2 non-NaN rows",
     "exception: Prophet fit or predict failed"}

\* the description is present and holds the keyword, whatever the letter case
HoldsKeyword(cell, keyword) == ~IsNa(cell) /\ Contains(Lower(PyStr(cell)), keyword)

\* row r of df is row r.idx of the loaded table, cell for cell
SameAsLoaded(r) ==
    /\ r.idx + 1 \in DOMAIN csv.rows
    /\ LET src == csv.rows[r.idx + 1]
       IN  /\ r.ctype = src.ctype
           /\ r.desc = src.desc
           /\ r.date \in {src.date, to_datetime(src.date)}

IsSubSequenceOfLoaded ==
    /\ \A i \in DOMAIN df.rows : SameAsLoaded(df.rows[i])
    /\ \A i, j \in DOMAIN df.rows : i < j => df.rows[i].idx < df.rows[j].idx
    /\ Len(df.rows) <= Len(csv.rows)

\* C1 (as claimed): after the filter stage df is a sub-sequence of the loaded
\* table and every row left satisfies each active predicate: date in
\* [start, end] and not missing, complaint type selected, description
\* containing the keyword, sentiment selected.
C1_FilterSound ==
    Filtered =>
        /\ IsSubSequenceOfLoaded
        /\ \A i \in DOMAIN df.rows :
             LET r == df.rows[i]
             IN  /\ crit.dateOn =>
                        /\ NotNaT(r.date)
                        /\ crit.start <= DtDate(r.date)
                        /\ DtDate(r.date) <= crit.end
                 /\ crit.typeOn => r.ctype \in crit.types
                 /\ crit.kwOn => HoldsKeyword(r.desc, crit.keyword)
                 /\ crit.sentOn => r.sentiment \in crit.sentiments

\* the loaded table has a column that the normalizer names `name`
LoadedHasColumn(name) ==
    \E i \in DOMAIN csv.cols : CleanName(csv.cols[i].name) = name

\* C2 (as claimed): a render of a non-empty table without a date column that
\* runs to its end has not reported "no valid data" and has run the topic
\* modeling section and offered the PDF report.
C2_NoDateColumnRest ==
    (pc = "done" /\ Loaded /\ ~IsEmpty(csv) /\ ~LoadedHasColumn(n_date)) =>
        /\ "warning: no valid data available" \notin out
        /\ out \cap TopicOutputs # {}
        /\ "summary" \in out

\* C3 (as claimed): after a failed load or the load of a table without rows
\* the render reports and halts: it enters no later section and does not end
\* in an uncaught exception.
C3_HaltOnNoData ==
    (pc # "load" /\ (LoadFailed \/ (Loaded /\ IsEmpty(csv)))) =>
        /\ pc # "crashed"
        /\ pc \notin Downstream
        /\ out \cap {"forecast", "daily trend", "topics", "pdf: file written"} = {}
        /\ pc = "done" => out # {}

\* C4 (as claimed): with a keyword set and a description column, the keyword
\* filter keeps exactly the rows whose description is present and contains
\* the keyword, compared case-insensitively.
C4_KeywordExact ==
    [][(pc = "keyword" /\ crit'.kwOn) =>
          LET wanted(r) == HoldsKeyword(r.desc, crit'.keyword)
          IN  df'.rows = SelectSeq(df.rows, wanted)]_vars

complaint_type == <<"c","o","m","p","l","a","i","n","t","_","t","y","p","e">>

\* C6 (as claimed): a table whose complaint-type column is named
\* "Complaint Type" in any case and spacing gets the complaint-type filter
\* and the top complaint-type counts.
C6_ComplaintTypeRecognized ==
    (pc = "categorize" /\ LoadedHasColumn(complaint_type)) =>
        /\ "top complaint types" \in out
        /\ out \cap {"filter: complaint type", "info: no valid complaint types"} # {}

\* C7 (as claimed): in the render of a valid table, a failure of the
\* forecast model or of the topic model is reported and does not abort the
\* render.
C7_ModelFailureCaught ==
    /\ (Filtered /\ out \cap ForecastFailures # {}) => pc # "crashed"
    /\ "warning: could not perform LDA topic modeling" \in out => pc = "done"

\* the normalizer (line 42) has run on df
Cleaned ==
    pc \in {"parse", "datefilter", "typefilter", "keyword", "sentiment"} \/ Filtered

NamesOf(t) == [i \in DOMAIN t.cols |-> t.cols[i].name]

PairwiseDistinct(names) ==
    \A i, j \in DOMAIN names : names[i] = names[j] => i = j

\* C8 (as claimed): once the normalizer has run on a table with pairwise
\* distinct raw names, the names are lower-case, trimmed, free of spaces and
\* still pairwise distinct, in every later stage.
C8_NamesNormalized ==
    (Cleaned /\ PairwiseDistinct(NamesOf(csv))) =>
        /\ \A i \in DOMAIN df.cols :
             LET n == df.cols[i].name
             IN  /\ Lower(n) = n
                 /\ Strip(n) = n
                 /\ " " \notin Range(n)
        /\ PairwiseDistinct(NamesOf(df))

RECURSIVE SumCounts(_)
SumCounts(t) == IF t = <<>> THEN 0 ELSE Head(t).count + SumCounts(Tail(t))

\* the rows of df with a date that is not missing
Dated == {i \in DOMAIN df.rows : NotNaT(df.rows[i].date)}

\* C9 (as claimed): the daily trend has one entry per calendar date of the
\* rows with a date, its count is the number of those rows on that date,
\* entries ascend, and the counts sum to the number of rows with a date.
C9_DailyTrend ==
    "daily trend" \in out =>
        LET days == {DtDate(df.rows[i].date) : i \in Dated}
        IN  /\ Len(trend_daily) = Cardinality(days)
            /\ \A n \in DOMAIN trend_daily :
                 LET day == trend_daily[n].date \div SlotsPerDay
                 IN  trend_daily[n].count =
                        Cardinality({i \in Dated : DtDate(df.rows[i].date) = day})
            /\ \A m, n \in DOMAIN trend_daily :
                 m < n => trend_daily[m].date < trend_daily[n].date
            /\ SumCounts(trend_daily) = Cardinality(Dated)

\* C10 (as claimed): the PDF document is used only when the button made it
\* in this render; a render without the press skips the report and goes on.
C10_PdfOnlyIfPressed ==
    /\ out \cap {"pdf: top complaint types", "pdf: file written"} # {}
           => "pressed: Generate PDF Report" \in out
    /\ "exception: NameError: pdf" \notin out

----------------------------------------------------------------------------
(* categorize against the ordered rules *)

\* the keyword groups in their order
RuleGroups ==
    << {kw_bill, kw_refund}, {kw_network, kw_signal}, {kw_slow, kw_speed},
       {kw_service, kw_support, kw_rude} >>

\* the first group with a keyword in the text, 0 when there is none
FirstMatch(text) ==
    LET hit == {g \in DOMAIN RuleGroups : \E k \in RuleGroups[g] : Contains(text, k)}
    IN  IF hit = {} THEN 0 ELSE CHOOSE g \in hit : \A h \in hit : g <= h

\* first-match-wins over the groups, with `labels` naming the groups
RuleLabel(text, labels) ==
    IF FirstMatch(text) = 0 THEN "Other" ELSE labels[FirstMatch(text)]

\* the same cell in another letter case
Recased(cell) == {[cell EXCEPT !.s = Upper(@)], [cell EXCEPT !.s = Lower(@)]}

\* C5 (as claimed): categorize returns the label of the ordered rules on the
\* lower-cased text, CustomerService for the fourth group; a missing or
\* non-text description gives Unknown; letter case does not change the label.
C5_AsClaimed ==
    pc = "applied" =>
        /\ cin.k = "text" =>
              cout = RuleLabel(Lower(cin.s),
                               <<"Billing", "Network", "Performance", "CustomerService">>)
        /\ cin.k # "text" => cout = "Unknown"
        /\ \A other \in Recased(cin) : categorize(other) = cout

\* C5 (amended): categorize returns one label: Unknown for a missing
\* description, and for any other value, text or not, the label of the
\* ordered first-match-wins rules on the lower-cased str() of the value, the
\* fourth group being labelled "Customer Service"; two descriptions that
\* differ only in letter case get the same label.
C5_CategorizeRules ==
    pc = "applied" =>
        /\ cout \in {"Billing", "Network", "Performance", "Customer Service",
                     "Other", "Unknown"}
        /\ IsNa(cin) => cout = "Unknown"
        /\ ~IsNa(cin) =>
              cout = RuleLabel(Lower(PyStr(cin)),
                               <<"Billing", "Network", "Performance", "Customer Service">>)
        /\ \A other \in Recased(cin) : categorize(other) = cout

\* an upper-case refund next to a network keyword: the first group wins
C5_Witness ==
    /\ pc = "applied"
    /\ cin = Text(<<"R","E","F","U","N","D","N","e","t","w","o","r","k">>)
    /\ cout = "Billing"

====
